---- MODULE Spec2Model ----
(***************************************************************************)
(* Master-data screens (Organization, Subsidiary, Location, Designation).  *)
(* Each screen is a React component holding rows / editingId / isFormOpen  *)
(* / view state plus a react-hook-form form (values, defaultValues,        *)
(* errors).  The source holds two versions of every screen; both are       *)
(* modelled:                                                               *)
(*   Des1  src/src/pages/DesignationPage.tsx   16-321                      *)
(*   Des2  src/src/pages/DesignationPage.tsx  345-607                      *)
(*   Org1  src/src/pages/DesignationPage.tsx  644-1229                     *)
(*   Org2  src/unnamed/part_005                42-466                      *)
(*   Sub1  src/unnamed/part_005               491-902                      *)
(*   Sub2  src/unnamed/part_005               934-1261                     *)
(*   Loc1  src/unnamed/part_006                24-490                      *)
(*   Loc2  src/src/pages/LocationPage.tsx      30-384                      *)
(*                                                                         *)
(* Strings whose characters the code inspects (toLowerCase, regular        *)
(* expressions, length) are sequences of one-character strings; the other  *)
(* strings are TLA+ strings.  One action is one event handler together     *)
(* with the re-render and the prefill effect that follow it.               *)
(***************************************************************************)
EXTENDS Integers, Sequences, FiniteSets, TLC

VARIABLES
    screen,        \* the mounted page component (App.tsx `active`, and its version)
    rows,          \* useState rows: sequence of records
    editingId,     \* useState editingId: an id, or null
    isFormOpen,    \* useState isFormOpen
    view,          \* useState view<Entity>: <<>> (null) or <<record>>
    values,        \* react-hook-form: current field values of the form
    defaults,      \* react-hook-form: defaultValues (what reset() restores)
    errors,        \* react-hook-form: formState.errors, field -> message
    usedIds,       \* history: every id a record of this mount has held
    last,          \* history: the last handler that ran and its outcome
    events         \* history: the user events the mounted page has handled

vars == <<screen, rows, editingId, isFormOpen, view, values, defaults, errors,
          usedIds, last, events>>

----------------------------------------------------------------------------
(* Bounds *)

\* a mounted page handles at most MaxEvents user events before the user
\* navigates to another screen
MaxEvents == 6

\* editingId === null
null == 0

----------------------------------------------------------------------------
(* Strings *)

UpperCase == <<"A","B","C","D","E","F","G","H","I","J","K","L","M",
               "N","O","P","Q","R","S","T","U","V","W","X","Y","Z">>
LowerCase == <<"a","b","c","d","e","f","g","h","i","j","k","l","m",
               "n","o","p","q","r","s","t","u","v","w","x","y","z">>
Digits == {"0","1","2","3","4","5","6","7","8","9"}

Range(s) == {s[i] : i \in DOMAIN s}

ToLowerChar(c) ==
    IF \E i \in DOMAIN UpperCase : UpperCase[i] = c
    THEN LowerCase[CHOOSE i \in DOMAIN UpperCase : UpperCase[i] = c]
    ELSE c

\* String.prototype.toLowerCase
ToLowerCase(s) == [i \in DOMAIN s |-> ToLowerChar(s[i])]

----------------------------------------------------------------------------
(* Screens *)

Screens == {"Des1", "Des2", "Org1", "Org2", "Sub1", "Sub2", "Loc1", "Loc2"}

\* the value of App's `active` under which the screen is rendered
Entity(s) ==
    CASE s \in {"Des1", "Des2"} -> "Des"
      [] s \in {"Org1", "Org2"} -> "org"
      [] s \in {"Sub1", "Sub2"} -> "sub"
      [] s \in {"Loc1", "Loc2"} -> "loc"

\* the form's fields, in the order of the yup schema
Fields(e) ==
    CASE e = "Des" -> <<"designationCode", "designationName">>
      [] e = "org" -> <<"organizationName", "organizationCode", "registrationNumber",
                        "emailId", "contactNumber", "addressLine1", "city", "pinCode",
                        "tenantCode", "status", "financialYearStart">>
      [] e = "sub" -> <<"subsidiaryName", "subsidiaryCode", "subsidiaryDescription",
                        "locationCode", "organizationCode">>
      [] e = "loc" -> <<"locationCode", "locationName", "regionCode", "countryCode",
                        "stateCode", "city", "pincode">>

FieldSet(e) == Range(Fields(e))

\* the natural key of the entity
KeyField(e) ==
    CASE e = "Des" -> "designationCode"
      [] e = "org" -> "organizationCode"
      [] e = "sub" -> "subsidiaryCode"
      [] e = "loc" -> "locationCode"

\* fields held as character sequences
CharFields(e) ==
    CASE e = "Des" -> {"designationCode"}
      [] e = "org" -> {"organizationCode", "tenantCode", "emailId", "contactNumber", "pinCode"}
      [] e = "sub" -> {"subsidiaryCode"}
      [] e = "loc" -> {"locationCode", "pincode"}

\* the empty string "" of a field
Empty(e, f) == IF f \in CharFields(e) THEN <<>> ELSE ""

\* useForm({defaultValues: {...}}): every field ""
EmptyValues(e) == [f \in FieldSet(e) |-> Empty(e, f)]

----------------------------------------------------------------------------
(* String literals of the source and of the inputs, as character sequences *)

DRV_ == <<"D","R","V">>
SEC_ == <<"S","E","C">>
AALMYS_ == <<"A","A","L","M","Y","S">>
AAL_ == <<"A","A","L">>
SUB_ == <<"S","U","B">>
P12345_ == <<"1","2","3","4","5">>
EMAIL_ == <<"i","n","f","o","@","a","u","t","o","a","x","l","e",".","c","o","m">>
CONTACT_ == <<"9","8","2","1","7","1","9","7","5","0">>

MGR_ == <<"M","G","R">>
XYZ_ == <<"X","Y","Z">>
NEW_ == <<"N","E","W">>
BLR_ == <<"B","L","R">>
P1234_ == <<"1","2","3","4">>
P123456_ == <<"1","2","3","4","5","6">>
P12A45_ == <<"1","2","A","4","5">>
AT_ACME_ == <<"a","@","a","c","m","e",".","i","n">>
LONG21_ == <<"A","B","C","D","E","F","G","H","I","J","K","L","M","N","O","P","Q","R","S","T","U">>

\* the {n,m} of the digit patterns and the .max(20) of subsidiaryCode
PinMin == 5
PinMax == 6
ContactMin == 8
ContactMax == 15
SubsidiaryCodeMax == 20

----------------------------------------------------------------------------
(* Seed data *)

\* initialDesignations
SeedDesignations ==
    << [id |-> 1, designationCode |-> DRV_, designationName |-> "Driver"],
       [id |-> 2, designationCode |-> SEC_, designationName |-> "Security"] >>

\* initialLocations
SeedLocations ==
    << [id |-> 1, locationCode |-> AALMYS_, locationName |-> "PANTNAGAR",
        regionCode |-> "UK", countryCode |-> "IN", stateCode |-> "UK",
        city |-> "PANTNAGAR", pincode |-> P12345_] >>

\* initialOrganizations (pinCode is "")
SeedOrganizations ==
    << [id |-> 1, organizationName |-> "Automotive Axles Limited",
        organizationCode |-> AAL_, registrationNumber |-> "7797779699",
        emailId |-> EMAIL_, contactNumber |-> CONTACT_,
        addressLine1 |-> "Hootagalli Industrial Area, Off Hunsur Road,",
        city |-> "Mysore", pinCode |-> <<>>, tenantCode |-> AAL_,
        status |-> "Inactive", financialYearStart |-> "Month 4"] >>

\* initialSubsidiaries: ../api/subsidary is not among the sources; a single
\* record, as the specification describes every seed list
SeedSubsidiaries ==
    << [id |-> 1, subsidiaryName |-> "Subsidiary One", subsidiaryCode |-> SUB_,
        subsidiaryDescription |-> "First subsidiary", locationCode |-> "AALMYS",
        organizationCode |-> "AAL"] >>

\* useState<...>(initial...)
Seed(e) ==
    CASE e = "Des" -> SeedDesignations
      [] e = "org" -> SeedOrganizations
      [] e = "sub" -> SeedSubsidiaries
      [] e = "loc" -> SeedLocations

----------------------------------------------------------------------------
(* Validation: the yup schemas behind yupResolver *)

Letters == Range(UpperCase) \cup Range(LowerCase)
AlphaNum == Letters \cup Digits
\* (the pattern also admits the grave accent, which no input here contains)
EmailLocalChars == AlphaNum \cup {".", "!", "#", "$", "%", "&", "'", "*", "+", "/",
                                  "=", "?", "^", "_", "{", "|", "}", "~", "-"}

\* mutant: {lo,hi} characters of any kind
DigitStringAnyChars(v, lo, hi) == Len(v) >= lo /\ Len(v) <= hi

\* /^[0-9]{lo,hi}$/
DigitString(v, lo, hi) ==
    /\ Len(v) >= lo
    /\ Len(v) <= hi
    /\ \A i \in DOMAIN v : v[i] \in Digits

\* the part after "@" of yup's email pattern: labels of letters, digits and
\* inner hyphens, separated by single dots (labels here stay under 63 characters)
EmailDomain(d) ==
    /\ Len(d) > 0
    /\ \A i \in DOMAIN d : d[i] \in AlphaNum \cup {"-", "."}
    /\ d[1] \in AlphaNum
    /\ d[Len(d)] \in AlphaNum
    /\ \A i \in 1..(Len(d) - 1) :
          /\ (d[i] = ".") => d[i + 1] \in AlphaNum
          /\ (d[i + 1] = ".") => d[i] \in AlphaNum

\* yup string().email(): the empty string is not tested
IsEmail(v) ==
    \/ v = <<>>
    \/ \E i \in DOMAIN v :
          /\ v[i] = "@"
          /\ i > 1
          /\ \A j \in 1..(i - 1) : v[j] \in EmailLocalChars
          /\ EmailDomain(SubSeq(v, i + 1, Len(v)))

\* the message of the first failing test of field f of the schema, "" when
\* every test passes (yupResolver keeps the first error of each field)
FieldError(e, f, v) ==
    CASE e = "Des" /\ f = "designationCode" ->
            IF v = <<>> THEN "Designation Code is required" ELSE ""
      [] e = "Des" /\ f = "designationName" ->
            IF v = "" THEN "Designation Name is required" ELSE ""
      [] e = "org" /\ f = "organizationName" ->
            IF v = "" THEN "Organization Name is required" ELSE ""
      [] e = "org" /\ f = "organizationCode" ->
            IF v = <<>> THEN "Organization Code is required" ELSE ""
      [] e = "org" /\ f = "registrationNumber" ->
            IF v = "" THEN "Registration Number is required" ELSE ""
      [] e = "org" /\ f = "emailId" ->
            IF ~IsEmail(v) THEN "Invalid email"
            ELSE IF v = <<>> THEN "Email ID is required" ELSE ""
      [] e = "org" /\ f = "contactNumber" ->
            IF v = <<>> THEN "Contact Number is required"
            ELSE IF ~DigitString(v, ContactMin, ContactMax) THEN "Contact must be 8-15 digits"
            ELSE ""
      [] e = "org" /\ f = "addressLine1" ->
            IF v = "" THEN "Address Line 1 is required" ELSE ""
      [] e = "org" /\ f = "city" ->
            IF v = "" THEN "City is required" ELSE ""
      [] e = "org" /\ f = "pinCode" ->
            IF v = <<>> THEN "Pin Code is required"
            ELSE IF ~DigitString(v, PinMin, PinMax) THEN "Pin Code must be 5-6 digits"
            ELSE ""
      [] e = "org" /\ f = "tenantCode" ->
            IF v = <<>> THEN "Tenant Code is required" ELSE ""
      [] e = "org" /\ f = "status" ->
            IF v = "" THEN "Status is required" ELSE ""
      [] e = "org" /\ f = "financialYearStart" ->
            IF v = "" THEN "Financial Year Start is required" ELSE ""
      [] e = "sub" /\ f = "subsidiaryName" ->
            IF v = "" THEN "Subsidiary Name is required" ELSE ""
      [] e = "sub" /\ f = "subsidiaryCode" ->
            IF v = <<>> THEN "Subsidiary Code is required"
            ELSE IF Len(v) > SubsidiaryCodeMax THEN "Max 20 characters"
            ELSE ""
      [] e = "sub" /\ f = "subsidiaryDescription" ->
            IF v = "" THEN "Subsidiary Description is required" ELSE ""
      [] e = "sub" /\ f = "locationCode" ->
            IF v = "" THEN "Location Code is required" ELSE ""
      [] e = "sub" /\ f = "organizationCode" ->
            IF v = "" THEN "Organization Code is required" ELSE ""
      [] e = "loc" /\ f = "locationCode" ->
            IF v = <<>> THEN "Location Code is required" ELSE ""
      [] e = "loc" /\ f = "locationName" ->
            IF v = "" THEN "Location Name is required" ELSE ""
      [] e = "loc" /\ f = "regionCode" ->
            IF v = "" THEN "Region Code is required" ELSE ""
      [] e = "loc" /\ f = "countryCode" ->
            IF v = "" THEN "Country Code is required" ELSE ""
      [] e = "loc" /\ f = "stateCode" ->
            IF v = "" THEN "State Code is required" ELSE ""
      [] e = "loc" /\ f = "city" ->
            IF v = "" THEN "City is required" ELSE ""
      [] e = "loc" /\ f = "pincode" ->
            IF v = <<>> THEN "Pincode is required"
            ELSE IF ~DigitString(v, PinMin, PinMax) THEN "Pincode must be 5-6 digits"
            ELSE ""

NoErrors == [f \in {} |-> ""]

\* mutant: validation stopped at the first field of the schema that fails
ResolveFirstOnly(e, vals) ==
    [f \in {g \in FieldSet(e) :
                /\ FieldError(e, g, vals[g]) # ""
                /\ \A i, j \in DOMAIN Fields(e) :
                      (Fields(e)[j] = g /\ i < j) => FieldError(e, Fields(e)[i], vals[Fields(e)[i]]) = ""} |->
        FieldError(e, f, vals[f])]

\* yupResolver(schema)(values): the errors of the fields that fail
Resolve(e, vals) ==
    [f \in {g \in FieldSet(e) : FieldError(e, g, vals[g]) # ""} |->
        FieldError(e, f, vals[f])]

----------------------------------------------------------------------------
(* What the user types: a bounded set of form contents for each entity *)

\* a buffer that passes every schema rule
Base(e) ==
    CASE e = "Des" -> [designationCode |-> MGR_, designationName |-> "Manager"]
      [] e = "org" -> [organizationName |-> "Acme", organizationCode |-> XYZ_,
                       registrationNumber |-> "R1", emailId |-> AT_ACME_,
                       contactNumber |-> CONTACT_, addressLine1 |-> "Road 1",
                       city |-> "Pune", pinCode |-> P123456_, tenantCode |-> XYZ_,
                       status |-> "Active", financialYearStart |-> "Month 1"]
      [] e = "sub" -> [subsidiaryName |-> "Subsidiary Two", subsidiaryCode |-> NEW_,
                       subsidiaryDescription |-> "Second", locationCode |-> "BLR",
                       organizationCode |-> "AAL"]
      [] e = "loc" -> [locationCode |-> BLR_, locationName |-> "BANGALORE",
                       regionCode |-> "KA", countryCode |-> "IN", stateCode |-> "KA",
                       city |-> "BANGALORE", pincode |-> P123456_]

\* keys typed: a seed key, the same in another letter case, a fresh key, nothing
KeyInputs(e) ==
    CASE e = "Des" -> {DRV_, ToLowerCase(DRV_), MGR_, <<>>}
      [] e = "org" -> {AAL_, ToLowerCase(AAL_), XYZ_, <<>>}
      [] e = "sub" -> {SUB_, ToLowerCase(SUB_), NEW_, <<>>, LONG21_}
      [] e = "loc" -> {AALMYS_, ToLowerCase(AALMYS_), BLR_, <<>>}

\* other fields typed differently from Base
Overrides(e) ==
    CASE e = "Des" -> {[designationName |-> "X"], [designationName |-> ""],
                       [designationCode |-> DRV_, designationName |-> "X"],
                       [designationCode |-> DRV_, designationName |-> ""]}
      [] e = "org" -> {[organizationName |-> "Other"], [status |-> ""],
                       [tenantCode |-> ToLowerCase(AAL_)], [pinCode |-> P1234_],
                       [emailId |-> <<"a","b","c">>], [contactNumber |-> P1234_],
                       [pinCode |-> P12A45_],
                       [organizationCode |-> AAL_, tenantCode |-> AAL_]}
      [] e = "sub" -> {[subsidiaryName |-> "Other"], [subsidiaryDescription |-> ""]}
      [] e = "loc" -> {[locationName |-> "HUBLI"], [city |-> ""],
                       [pincode |-> P1234_], [pincode |-> P12A45_],
                       [city |-> "", pincode |-> P1234_]}

\* Base with the fields of ov typed over
Typed(e, ov) == [f \in FieldSet(e) |-> IF f \in DOMAIN ov THEN ov[f] ELSE Base(e)[f]]

Candidates(e) ==
    {Typed(e, [f \in {KeyField(e)} |-> k]) : k \in KeyInputs(e)}
        \cup {Typed(e, ov) : ov \in Overrides(e)}

----------------------------------------------------------------------------
(* What differs between the versions of a screen *)

\* onSubmit starts with the rows.some(...) duplicate check on the key
HasDuplicateCheck(s) == s \in {"Des2", "Org1", "Org2", "Sub2", "Loc2"}

\* mutant: no version checks tenantCode
HasTenantCheckNowhere(s) == FALSE

\* onSubmit also checks tenantCode
HasTenantCheck(s) == s = "Org2"

\* setError is taken from useForm (LocationPage.tsx calls it without)
SetErrorInScope(s) == s # "Loc2"

\* the else branch of the prefill effect is reset({...: ""}) rather than reset()
EffectResetsToEmpty(s) == s \in {"Des1", "Org1", "Sub1", "Loc1"}

\* handleEdit, handleDelete and Add New call setView...(null)
ClosesView(s) == s \in {"Des1", "Sub1", "Loc1"}

\* the label in "<label> already exists. It must be unique."
DuplicateMessage(e) ==
    CASE e = "Des" -> "Designation Code already exists. It must be unique."
      [] e = "org" -> "Organization Code already exists. It must be unique."
      [] e = "sub" -> "Subsidiary Code already exists. It must be unique."
      [] e = "loc" -> "Location Code already exists. It must be unique."

TenantMessage == "Tenant Code already exists. It must be unique."

----------------------------------------------------------------------------
(* Pure helpers of the handlers *)

Ids(rs) == {rs[i].id : i \in DOMAIN rs}

\* rows.find((r) => r.id === editingId) ?? null, as <<>> or <<row>>
EditingRow(rs, id) ==
    IF \E i \in DOMAIN rs : rs[i].id = id
    THEN <<rs[CHOOSE i \in DOMAIN rs : rs[i].id = id /\ \A j \in 1..(i - 1) : rs[j].id # id]>>
    ELSE <<>>

\* the object the effect hands to reset: the row's form fields
FormOf(e, r) == [f \in FieldSet(e) |-> r[f]]

\* Math.max(...rows.map((r) => r.id))
MaxIdOf(rs) == CHOOSE m \in Ids(rs) : \A n \in Ids(rs) : n <= m

\* mutant: the id taken from the number of rows
NextIdByLength(rs) == Len(rs) + 1

\* mutant: the smallest id no stored record holds
NextIdFillsGap(rs) == CHOOSE n \in 1..(Len(rs) + 1) :
                          n \notin Ids(rs) /\ \A m \in 1..(n - 1) : m \in Ids(rs)

\* id: rows.length > 0 ? Math.max(...) + 1 : 1
NextId(rs) == IF Len(rs) > 0 THEN MaxIdOf(rs) + 1 ELSE 1

\* rows.some((row) => row[f].toLowerCase() === data[f].toLowerCase() && row.id !== editingId)
IsDuplicate(rs, f, data, id) ==
    \E i \in DOMAIN rs :
        /\ ToLowerCase(rs[i][f]) = ToLowerCase(data[f])
        /\ rs[i].id # id

\* mutant: the new row put first
CreatedFirst(rs, data) == <<data @@ [id |-> NextId(rs)]>> \o rs

\* [...prev, {id: ..., ...data}]
Created(rs, data) == Append(rs, data @@ [id |-> NextId(rs)])

\* mutant: {...row, ...data} without the key put back
UpdatedWithDataKey(rs, id, data, k) ==
    [i \in DOMAIN rs |->
        IF rs[i].id = id
        THEN [f \in DOMAIN rs[i] |-> IF f \in DOMAIN data THEN data[f] ELSE rs[i][f]]
        ELSE rs[i]]

\* mutant: the updated row taken out and put back at the end
UpdatedMovedLast(rs, id, data, k) ==
    SelectSeq(rs, LAMBDA r : r.id # id)
        \o [i \in 1..1 |->
               [f \in DOMAIN EditingRow(rs, id)[1] |->
                   IF f = k THEN EditingRow(rs, id)[1][k]
                   ELSE IF f \in DOMAIN data THEN data[f] ELSE EditingRow(rs, id)[1][f]]]

\* prev.map((row) => row.id === editingId ? {...row, ...data, key: row.key} : row)
Updated(rs, id, data, k) ==
    [i \in DOMAIN rs |->
        IF rs[i].id = id
        THEN [f \in DOMAIN rs[i] |->
                 IF f = k THEN rs[i][k]
                 ELSE IF f \in DOMAIN data THEN data[f] ELSE rs[i][f]]
        ELSE rs[i]]

\* mutant: the first row dropped, whatever its id
RemovedFirst(rs, id) == Tail(rs)

\* prev.filter((row) => row.id !== id)
Removed(rs, id) == SelectSeq(rs, LAMBDA r : r.id # id)

\* mutant: the rows filtered without asking
RemovedUnasked(ok, rs, id) == Removed(rs, id)

\* if (window.confirm(...)) setRows((prev) => prev.filter(...))
RowsAfterDelete(ok, rs, id) == IF ok THEN Removed(rs, id) ELSE rs

\* mutant: the form left as it is by every delete
ClosesFormNever(ok, editing, id) == FALSE

\* mutant: the form closed by every confirmed delete
ClosesFormAlways(ok, editing, id) == ok

\* inside the confirmed branch: if (editingId === id) { ...close the form... }
ClosesForm(ok, editing, id) == ok /\ editing = id

\* setError(f, {message})
WithError(er, f, msg) ==
    [g \in DOMAIN er \cup {f} |-> IF g = f THEN msg ELSE er[g]]

\* the form after the render that follows a handler: the prefill effect runs
\* when editingRow is another object than at the previous render; reset(x)
\* makes x both the values and the defaultValues and clears the errors
Prefill(s, before, after, v, d, er) ==
    IF before = after THEN [values |-> v, defaults |-> d, errors |-> er]
    ELSE IF after # <<>>
    THEN [values |-> FormOf(Entity(s), after[1]),
          defaults |-> FormOf(Entity(s), after[1]), errors |-> NoErrors]
    ELSE IF EffectResetsToEmpty(s)
    THEN [values |-> EmptyValues(Entity(s)),
          defaults |-> EmptyValues(Entity(s)), errors |-> NoErrors]
    ELSE [values |-> d, defaults |-> d, errors |-> NoErrors]

\* the record kept of a handler: its name, its outcome, the id and key it was
\* about, and the id being edited when it started
Did(op, res, id, key) ==
    [op |-> op, res |-> res, id |-> id, key |-> key, from |-> editingId]

----------------------------------------------------------------------------
(* State after mounting a page component *)

\* mutant: the page mounted with the open flag of the page left
MountedFormKept(s) ==
    /\ screen' = s
    /\ rows' = Seed(Entity(s))
    /\ editingId' = null
    /\ isFormOpen' = isFormOpen
    /\ view' = <<>>
    /\ values' = EmptyValues(Entity(s))
    /\ defaults' = EmptyValues(Entity(s))
    /\ errors' = NoErrors
    /\ usedIds' = Ids(Seed(Entity(s)))
    /\ events' = 0

\* useState(...) of a page component that is mounted
Mounted(s) ==
    /\ screen' = s
    /\ rows' = Seed(Entity(s))
    /\ editingId' = null
    /\ isFormOpen' = FALSE
    /\ view' = <<>>
    /\ values' = EmptyValues(Entity(s))
    /\ defaults' = EmptyValues(Entity(s))
    /\ errors' = NoErrors
    /\ usedIds' = Ids(Seed(Entity(s)))
    /\ events' = 0

\* App: useState("org")
Init ==
    /\ screen \in {"Org1", "Org2"}
    /\ rows = Seed("org")
    /\ editingId = null
    /\ isFormOpen = FALSE
    /\ view = <<>>
    /\ values = EmptyValues("org")
    /\ defaults = EmptyValues("org")
    /\ errors = NoErrors
    /\ usedIds = Ids(Seed("org"))
    /\ last = Did("Mount", "", null, <<>>)
    /\ events = 0

----------------------------------------------------------------------------
(* Event handlers *)

\* App: onClick={() => setActive(e)}; the page of the entity left is unmounted
Navigate(e) ==
    /\ e # Entity(screen)
    /\ \E s \in Screens : Entity(s) = e /\ Mounted(s)
    /\ last' = [Did("Navigate",
                     IF rows # Seed(Entity(screen)) \/ isFormOpen \/ view # <<>>
                     THEN "dirty" ELSE "clean",
                     null, <<>>) EXCEPT !.from = null]

\* the user types into the open form
Fill(b) ==
    /\ isFormOpen
    /\ b # values
    /\ values' = b
    /\ last' = Did("Fill", "", null, <<>>)
    /\ UNCHANGED <<screen, rows, editingId, isFormOpen, view, defaults, errors, usedIds>>

\* Add New: setEditingId(null); reset(); setIsFormOpen(true)
AddNew ==
    LET f == Prefill(screen, EditingRow(rows, editingId), <<>>,
                     defaults, defaults, NoErrors)
    IN  /\ editingId' = null
        /\ isFormOpen' = TRUE
        /\ view' = IF ClosesView(screen) THEN <<>> ELSE view
        /\ values' = f.values
        /\ defaults' = f.defaults
        /\ errors' = f.errors
        /\ last' = Did("AddNew", "", null, <<>>)
        /\ UNCHANGED <<screen, rows, usedIds>>

\* handleEdit(row)
Edit(i) ==
    LET f == Prefill(screen, EditingRow(rows, editingId), <<rows[i]>>,
                     values, defaults, errors)
    IN  /\ editingId' = rows[i].id
        /\ isFormOpen' = TRUE
        /\ view' = IF ClosesView(screen) THEN <<>> ELSE view
        /\ values' = f.values
        /\ defaults' = f.defaults
        /\ errors' = f.errors
        /\ last' = Did("Edit", "", rows[i].id, <<>>)
        /\ UNCHANGED <<screen, rows, usedIds>>

\* View: onClick={() => setView...(row)}
View(i) ==
    /\ view' = <<rows[i]>>
    /\ last' = Did("View", "", rows[i].id, <<>>)
    /\ UNCHANGED <<screen, rows, editingId, isFormOpen, values, defaults, errors, usedIds>>

\* the Close button of the view panel, onClose of the view modal
CloseView ==
    /\ view # <<>>
    /\ view' = <<>>
    /\ last' = Did("CloseView", "", null, <<>>)
    /\ UNCHANGED <<screen, rows, editingId, isFormOpen, values, defaults, errors, usedIds>>

\* handleDelete(id), window.confirm answering ok
Delete(i, ok) ==
    LET id == rows[i].id
        closes == ClosesForm(ok, editingId, id)
        left == RowsAfterDelete(ok, rows, id)
        f == Prefill(screen, EditingRow(rows, editingId),
                     EditingRow(left, IF closes THEN null ELSE editingId),
                     IF closes THEN defaults ELSE values, defaults,
                     IF closes THEN NoErrors ELSE errors)
    IN  /\ rows' = left
        /\ editingId' = IF closes THEN null ELSE editingId
        /\ isFormOpen' = IF closes THEN FALSE ELSE isFormOpen
        /\ view' = IF ok /\ ClosesView(screen) /\ view # <<>> /\ view[1].id = id
                   THEN <<>> ELSE view
        /\ values' = f.values
        /\ defaults' = f.defaults
        /\ errors' = f.errors
        /\ last' = Did("Delete", IF ok THEN "confirmed" ELSE "declined", id, <<>>)
        /\ UNCHANGED <<screen, usedIds>>

\* mutant: handleCancel without setEditingId(null)
CancelKeepsEditing ==
    /\ isFormOpen
    /\ isFormOpen' = FALSE
    /\ values' = defaults
    /\ errors' = NoErrors
    /\ last' = Did("Cancel", "", null, <<>>)
    /\ UNCHANGED <<screen, rows, editingId, view, defaults, usedIds>>

\* handleCancel: setEditingId(null); reset(); setIsFormOpen(false)
Cancel ==
    LET f == Prefill(screen, EditingRow(rows, editingId), <<>>,
                     defaults, defaults, NoErrors)
    IN  /\ isFormOpen
        /\ editingId' = null
        /\ isFormOpen' = FALSE
        /\ values' = f.values
        /\ defaults' = f.defaults
        /\ errors' = f.errors
        /\ last' = Did("Cancel", "", null, <<>>)
        /\ UNCHANGED <<screen, rows, view, usedIds>>

\* mutant: the duplicate check made before the resolver runs
OutcomeDuplicateFirst(s, rs, id, data) ==
    IF HasDuplicateCheck(s) /\ IsDuplicate(rs, KeyField(Entity(s)), data, id)
    THEN (IF SetErrorInScope(s) THEN "duplicate" ELSE "threw")
    ELSE IF Resolve(Entity(s), data) # NoErrors THEN "invalid"
    ELSE IF HasTenantCheck(s) /\ IsDuplicate(rs, "tenantCode", data, id) THEN "tenant"
    ELSE IF id = null THEN "created" ELSE "updated"

\* what handleSubmit(onSubmit) ends in for the form contents `data`:
\*   "invalid"   the resolver reports errors, onSubmit is not called
\*   "duplicate" onSubmit returns after setError on the key field
\*   "threw"     onSubmit calls a setError that is not in scope
\*   "tenant"    onSubmit returns after setError on tenantCode
\*   "created" / "updated"
Outcome(s, rs, id, data) ==
    IF Resolve(Entity(s), data) # NoErrors THEN "invalid"
    ELSE IF HasDuplicateCheck(s) /\ IsDuplicate(rs, KeyField(Entity(s)), data, id)
    THEN (IF SetErrorInScope(s) THEN "duplicate" ELSE "threw")
    ELSE IF HasTenantCheck(s) /\ IsDuplicate(rs, "tenantCode", data, id) THEN "tenant"
    ELSE IF id = null THEN "created" ELSE "updated"

\* mutant: no return after setError
SavedWithoutReturn(s, rs, id, data) ==
    IF Outcome(s, rs, id, data) = "invalid" THEN rs
    ELSE IF id = null THEN Created(rs, data)
    ELSE Updated(rs, id, data, KeyField(Entity(s)))

\* the rows after onSubmit
Saved(s, rs, id, data) ==
    IF Outcome(s, rs, id, data) = "created" THEN Created(rs, data)
    ELSE IF Outcome(s, rs, id, data) = "updated"
    THEN Updated(rs, id, data, KeyField(Entity(s)))
    ELSE rs

\* the errors after handleSubmit: the resolver's, then what onSubmit sets
SubmitErrors(s, rs, id, data) ==
    CASE Outcome(s, rs, id, data) = "invalid" -> Resolve(Entity(s), data)
      [] Outcome(s, rs, id, data) = "duplicate" ->
            WithError(NoErrors, KeyField(Entity(s)), DuplicateMessage(Entity(s)))
      [] Outcome(s, rs, id, data) = "tenant" ->
            WithError(NoErrors, "tenantCode", TenantMessage)
      [] OTHER -> NoErrors

\* the form's submit button: handleSubmit(onSubmit)
Submit ==
    LET res == Outcome(screen, rows, editingId, values)
        saved == res \in {"created", "updated"}
        f == IF saved
             THEN Prefill(screen, EditingRow(rows, editingId), <<>>,
                          defaults, defaults, NoErrors)
             ELSE [values |-> values, defaults |-> defaults,
                   errors |-> SubmitErrors(screen, rows, editingId, values)]
    IN  /\ isFormOpen
        /\ rows' = Saved(screen, rows, editingId, values)
        /\ editingId' = IF saved THEN null ELSE editingId
        /\ isFormOpen' = IF saved THEN FALSE ELSE isFormOpen
        /\ values' = f.values
        /\ defaults' = f.defaults
        /\ errors' = f.errors
        /\ usedIds' = usedIds \cup Ids(rows')
        /\ last' = Did("Submit", res, IF res = "created" THEN NextId(rows) ELSE editingId,
                       values[KeyField(Entity(screen))])
        /\ UNCHANGED <<screen, view>>

\* the handlers of the mounted page
Handle ==
    \/ \E b \in Candidates(Entity(screen)) : Fill(b)
    \/ AddNew
    \/ \E i \in DOMAIN rows : Edit(i)
    \/ \E i \in DOMAIN rows : View(i)
    \/ CloseView
    \/ \E i \in DOMAIN rows, ok \in BOOLEAN : Delete(i, ok)
    \/ Cancel
    \/ Submit

Next ==
    \/ \E e \in {"org", "sub", "loc", "Des"} : Navigate(e)
    \/ (events < MaxEvents /\ events' = events + 1 /\ Handle)

Spec == Init /\ [][Next]_vars

----------------------------------------------------------------------------
(* Vocabulary of the properties *)

\* the natural-key field of the mounted screen
Key == KeyField(Entity(screen))

\* the step is the submit handler of the mounted page
SubmitStep == last'.op = "Submit"

\* the step is a delete whose confirmation was answered with ok
ConfirmedDelete == last'.op = "Delete" /\ last'.res = "confirmed"

\* the buffer passes the required and format rules of the schema
PassesSchema == Resolve(Entity(screen), values) = NoErrors

\* the buffer's key is, in any letter case, the key of a record other than the one edited
KeyTaken == IsDuplicate(rows, Key, values, editingId)

\* the buffer's tenantCode is that of another record, on the screen that checks it
TenantTaken == HasTenantCheck(screen) /\ IsDuplicate(rows, "tenantCode", values, editingId)

----------------------------------------------------------------------------
(* C1 - C10 *)

\* C1: in every reachable state of every screen, no two records of the store
\* have natural keys that are equal when letter case is ignored.
C1_UniqueKeys ==
    \A i, j \in DOMAIN rows :
        i # j => ToLowerCase(rows[i][Key]) # ToLowerCase(rows[j][Key])

\* C2: a Submit (creating, or editing another record) whose buffer passes the
\* schema and whose key equals, in any letter case, the key of a stored record
\* is rejected with the "already exists" error on the key field and leaves the
\* store exactly as it was.
C2_DuplicateRejected ==
    [][(SubmitStep /\ PassesSchema /\ KeyTaken) =>
          /\ rows' = rows
          /\ Key \in DOMAIN errors'
          /\ errors'[Key] = DuplicateMessage(Entity(screen))]_vars

\* C3: a record keeps its natural key for as long as it is stored: across every
\* step on a screen, a record whose id is in the store before and after has the
\* same key, whatever key the submitted buffer carries.
C3_KeyImmutable ==
    [][(screen' = screen) =>
          \A i \in DOMAIN rows, j \in DOMAIN rows' :
              (rows[i].id = rows'[j].id) => (rows'[j][Key] = rows[i][Key])]_vars

\* C3 witness: an update was accepted whose buffer carried another key than the
\* stored record's.
C3_Witness ==
    /\ last.op = "Submit"
    /\ last.res = "updated"
    /\ \E i \in DOMAIN rows : rows[i].id = last.id /\ rows[i][Key] # last.key

\* C4: a Submit in creating state with a buffer that passes validation appends
\* exactly one record, whose id is the largest previous id plus one (1 on an
\* empty store) and whose other fields are the buffer's; the records stored
\* before are unchanged and keep their positions.
C4_CreateAppends ==
    [][(SubmitStep /\ editingId = null /\ PassesSchema /\ ~KeyTaken /\ ~TenantTaken) =>
          /\ Len(rows') = Len(rows) + 1
          /\ SubSeq(rows', 1, Len(rows)) = rows
          /\ rows'[Len(rows')].id =
                (IF rows = <<>> THEN 1
                 ELSE 1 + CHOOSE m \in Ids(rows) : \A n \in Ids(rows) : n <= m)
          /\ FormOf(Entity(screen), rows'[Len(rows')]) = values
          /\ DOMAIN rows'[Len(rows')] = FieldSet(Entity(screen)) \cup {"id"}]_vars

\* C4 witness: a record was created in a store from which the record with the
\* largest id had been deleted before.
C4_Witness ==
    /\ last.op = "Submit"
    /\ last.res = "created"
    /\ Len(rows) >= 2
    /\ Cardinality(usedIds) < Len(Seed(Entity(screen))) + 1

\* C5: in every reachable state no two records of the store have the same id.
C5_UniqueIds ==
    \A i, j \in DOMAIN rows : i # j => rows[i].id # rows[j].id

\* C5 witness: a record was created after a deletion, next to other records.
C5_Witness ==
    /\ last.op = "Submit"
    /\ last.res = "created"
    /\ Len(rows) >= 2
    /\ \E n \in usedIds : n \notin Ids(rows)

\* C6: an id that a record of the store has ever held is never given to a
\* record created later.
C6_NoIdReuse ==
    [][(SubmitStep /\ last'.res = "created") => last'.id \notin usedIds]_vars

\* C6 (amended): a created record's id is larger than every id in the store at
\* that moment, so an id held earlier is given out again only when the record
\* that held it and every record with a larger id have been deleted.
C6_NoReuseBelowLargest ==
    [][(SubmitStep /\ last'.res = "created") =>
          \A n \in Ids(rows) : n < rows'[Len(rows')].id]_vars

\* C6 witness: the store was emptied and the next record created got id 1 again.
C6_Witness ==
    /\ last.op = "Submit"
    /\ last.res = "created"
    /\ Len(rows) = 1
    /\ rows[1].id = 1
    /\ Cardinality(usedIds) = Len(Seed(Entity(screen)))

\* C7: a Submit that fails validation (required, format, duplicate key) leaves
\* the store unchanged, the form open and the editing target as it was.
C7_FailedSubmitKeepsState ==
    [][(SubmitStep /\ (~PassesSchema
                        \/ (HasDuplicateCheck(screen) /\ KeyTaken)
                        \/ TenantTaken)) =>
          /\ rows' = rows
          /\ isFormOpen' = TRUE
          /\ editingId' = editingId]_vars

\* C7 witness: a submit in editing state was rejected as a duplicate.
C7_Witness ==
    /\ last.op = "Submit"
    /\ last.res = "duplicate"
    /\ editingId # null
    /\ isFormOpen

\* C8: Edit on a record followed by Submit of the prefilled buffer, key
\* unchanged, is not rejected as a duplicate and ends with the form closed.
C8_EditUnchangedSucceeds ==
    [][(SubmitStep /\ editingId # null
            /\ EditingRow(rows, editingId) # <<>>
            /\ values = FormOf(Entity(screen), EditingRow(rows, editingId)[1])) =>
          /\ last'.res \notin {"duplicate", "threw"}
          /\ isFormOpen' = FALSE]_vars

\* C9: after a Submit that passes validation the form is closed, no id is
\* being edited and every field of the buffer holds its empty default.
C9_ClosedAfterSubmit ==
    (last.op = "Submit" /\ last.res \in {"created", "updated"}) =>
        /\ isFormOpen = FALSE
        /\ editingId = null
        /\ values = EmptyValues(Entity(screen))

\* C10: a confirmed Delete of the record open in the view closes the view.
C10_DeleteClosesView ==
    [][(ConfirmedDelete /\ view # <<>> /\ view[1].id = last'.id) => view' = <<>>]_vars

----------------------------------------------------------------------------
(* C11 - C20 *)

\* the step is the Edit handler of a row
EditStep == last'.op = "Edit"

\* the row of the store with the given id, as the form shows it
StoredForm(rs, id) == FormOf(Entity(screen), EditingRow(rs, id)[1])

\* a submit outcome that changes the store
Accepted(res) == res \in {"created", "updated"}

\* the store rs with the fields of record i other than its id and its natural
\* key taken from c
WithOtherFields(rs, i, c) ==
    [j \in DOMAIN rs |->
        IF j = i
        THEN [f \in DOMAIN rs[j] |-> IF f \in {"id", Key} THEN rs[j][f] ELSE c[f]]
        ELSE rs[j]]

\* C11: a confirmed Delete of the id being edited closes the form (not open,
\* no editing id); a confirmed Delete of any other id leaves the form's open
\* flag and editing id as they were.
C11_DeleteClosesFormOfEdited ==
    [][ConfirmedDelete =>
          IF editingId = last'.id
          THEN isFormOpen' = FALSE /\ editingId' = null
          ELSE isFormOpen' = isFormOpen /\ editingId' = editingId]_vars

\* C11 witness: the record being edited was deleted, and the form is closed.
C11_Witness ==
    /\ last.op = "Delete"
    /\ last.res = "confirmed"
    /\ last.from = last.id
    /\ last.id \notin Ids(rows)
    /\ ~isFormOpen

\* C12: immediately after Edit on a row the form is open in editing state for
\* that row's id and no view projection is open.
C12_EditClosesView ==
    [][EditStep =>
          /\ isFormOpen' = TRUE
          /\ editingId' = last'.id
          /\ view' = <<>>]_vars

\* C13: in no reachable state are a view projection and the form both open.
C13_ViewAndFormExclusive == ~(view # <<>> /\ isFormOpen)

\* C14: from any form state, Edit on a stored row leaves the form editing that
\* row with every buffer field equal to the row's stored value.
C14_EditPrefills ==
    [][EditStep =>
          /\ isFormOpen' = TRUE
          /\ editingId' = last'.id
          /\ values' = StoredForm(rows', last'.id)]_vars

\* C15: from any form state, Add New leaves the form open, with no editing id
\* and every buffer field at its empty default.
C15_AddNewEmpty ==
    [][(last'.op = "AddNew") =>
          /\ isFormOpen' = TRUE
          /\ editingId' = null
          /\ values' = EmptyValues(Entity(screen))]_vars

\* C16: an accepted Submit in editing state replaces only the record edited:
\* same number of records, the record keeps its id and position, its fields
\* other than the key become the buffer's, every other record is unchanged.
C16_UpdateReplacesOne ==
    [][(SubmitStep /\ last'.res = "updated") =>
          /\ Len(rows') = Len(rows)
          /\ \A i \in DOMAIN rows :
                IF rows[i].id = editingId
                THEN /\ rows'[i].id = editingId
                     /\ DOMAIN rows'[i] = DOMAIN rows[i]
                     /\ \A f \in FieldSet(Entity(screen)) \ {Key} :
                           rows'[i][f] = values[f]
                ELSE rows'[i] = rows[i]]_vars

\* C16 witness: the first of several records was updated and differs from the
\* seed record in a field other than the key.
C16_Witness ==
    /\ last.op = "Submit"
    /\ last.res = "updated"
    /\ Len(rows) >= 2
    /\ rows[1].id = last.id
    /\ rows[1] # Seed(Entity(screen))[1]
    /\ rows[1][Key] = Seed(Entity(screen))[1][Key]

\* C17: a confirmed Delete removes exactly the record with the id given and
\* keeps the others as they were and in their order; for an id no record has,
\* the removal leaves the store unchanged.
C17_DeleteRemovesOne ==
    [][/\ ConfirmedDelete =>
             \E i \in DOMAIN rows :
                 /\ rows[i].id = last'.id
                 /\ rows' = SubSeq(rows, 1, i - 1) \o SubSeq(rows, i + 1, Len(rows))
       /\ \A n \in 0..(Len(rows) + MaxEvents) :
             n \notin Ids(rows) => RowsAfterDelete(TRUE, rows, n) = rows]_vars

\* C17 witness: a record between two others was deleted.
C17_Witness ==
    /\ last.op = "Delete"
    /\ last.res = "confirmed"
    /\ \E i, j \in DOMAIN rows : i < j /\ rows[i].id < last.id /\ last.id < rows[j].id

\* C18: a Delete whose confirmation is answered with no leaves the store, the
\* form (open flag, editing id, buffer) and the view unchanged.
C18_DeclinedDeleteNoEffect ==
    [][(last'.op = "Delete" /\ last'.res = "declined") =>
          UNCHANGED <<rows, isFormOpen, editingId, values, view>>]_vars

\* C18 witness: the delete declined was that of the record being edited and
\* viewed, which is still stored.
C18_Witness ==
    /\ last.op = "Delete"
    /\ last.res = "declined"
    /\ isFormOpen
    /\ editingId = last.id
    /\ view # <<>>
    /\ view[1].id = last.id
    /\ last.id \in Ids(rows)

\* C19: a Submit whose buffer passes the schema and whose key is that of
\* another record ends normally, with the error "<Key label> already exists.
\* It must be unique." in the form's errors under the key field.
C19_DuplicateFieldError ==
    [][(SubmitStep /\ PassesSchema /\ KeyTaken) =>
          /\ last'.res = "duplicate"
          /\ errors' = WithError(NoErrors, Key, DuplicateMessage(Entity(screen)))]_vars

\* C20: whether a Submit is accepted depends on the store only through the ids
\* and natural keys of its records: a store that differs from the current one
\* in other fields of a record gives the same buffer the same verdict.
C20_OnlyKeysMatter ==
    isFormOpen =>
        \A i \in DOMAIN rows, c \in Candidates(Entity(screen)) :
            Accepted(Outcome(screen, rows, editingId, values))
                <=> Accepted(Outcome(screen, WithOtherFields(rows, i, c), editingId, values))

----------------------------------------------------------------------------
(* C21 - C30 *)

\* the digit-count rules of an entity: field, least and greatest number of digits
DigitRules(e) ==
    CASE e = "org" -> {[f |-> "pinCode", lo |-> 5, hi |-> 6],
                       [f |-> "contactNumber", lo |-> 8, hi |-> 15]}
      [] e = "loc" -> {[f |-> "pincode", lo |-> 5, hi |-> 6]}
      [] OTHER -> {}

\* the messages of the digit-count rules
FormatMessages == {"Pin Code must be 5-6 digits", "Pincode must be 5-6 digits",
                   "Contact must be 8-15 digits"}

\* v is a string of lo to hi decimal digits
DecimalDigits(v, lo, hi) ==
    /\ Len(v) \in lo..hi
    /\ Range(v) \subseteq {"0", "1", "2", "3", "4", "5", "6", "7", "8", "9"}

\* the value v of field f is empty or breaks the format rule of the field
Violates(e, f, v) ==
    \/ v = Empty(e, f)
    \/ \E d \in DigitRules(e) : d.f = f /\ ~DecimalDigits(v, d.lo, d.hi)
    \/ (e = "org" /\ f = "emailId" /\ ~IsEmail(v))
    \/ (e = "sub" /\ f = "subsidiaryCode" /\ Len(v) > 20)

\* the messages of the store-dependent checks
UniquenessMessages == {DuplicateMessage(Entity(screen)), TenantMessage}

\* no two records of rs have the same tenantCode when letter case is ignored
TenantUnique(rs) ==
    \A i, j \in DOMAIN rs :
        i # j => ToLowerCase(rs[i].tenantCode) # ToLowerCase(rs[j].tenantCode)

\* C21: a Submit is rejected with a format error on the field exactly when a
\* non-empty pin code is not a string of 5 or 6 decimal digits or a non-empty
\* contact number is not a string of 8 to 15 decimal digits.
C21_DigitCountRules ==
    [][SubmitStep =>
          \A d \in DigitRules(Entity(screen)) :
              LET bad == values[d.f] # <<>> /\ ~DecimalDigits(values[d.f], d.lo, d.hi)
              IN  /\ bad => (last'.res = "invalid" /\ rows' = rows /\ isFormOpen')
                  /\ bad <=> (d.f \in DOMAIN errors' /\ errors'[d.f] \in FormatMessages)]_vars

\* C21 witness: the Location form was submitted with pincode "1234" and carries
\* the format error on pincode.
C21_Witness ==
    /\ last.op = "Submit"
    /\ last.res = "invalid"
    /\ Entity(screen) = "loc"
    /\ values.pincode = P1234_
    /\ "pincode" \in DOMAIN errors
    /\ errors.pincode \in FormatMessages

\* C22: after a Submit the fields that carry a required or format error are
\* exactly the fields of the schema whose buffer value is empty or breaks its
\* format rule.
C22_ErrorsPerField ==
    [][SubmitStep =>
          {f \in DOMAIN errors' : errors'[f] \notin UniquenessMessages}
              = {f \in FieldSet(Entity(screen)) : Violates(Entity(screen), f, values[f])}]_vars

\* C22 witness: one submit left errors on several fields, but not on all.
C22_Witness ==
    /\ last.op = "Submit"
    /\ last.res = "invalid"
    /\ Cardinality(DOMAIN errors) >= 2
    /\ Cardinality(DOMAIN errors) < Cardinality(FieldSet(Entity(screen)))

\* C23: Cancel closes the form and clears the editing id, and leaves the store
\* and the view as they were.
C23_CancelCloses ==
    [][(last'.op = "Cancel") =>
          /\ isFormOpen' = FALSE
          /\ editingId' = null
          /\ rows' = rows
          /\ view' = view]_vars

\* C23 witness: an edit was cancelled while a view was open.
C23_Witness ==
    /\ last.op = "Cancel"
    /\ last.from # null
    /\ view # <<>>
    /\ ~isFormOpen

\* C24: one screen is mounted at a time, and a screen switched to starts from
\* its seed list with the form closed and no view open, whatever was done on
\* the screen left.
C24_SwitchDiscards ==
    [][/\ screen' \in Screens
       /\ (screen' # screen) =>
             /\ rows' = Seed(Entity(screen'))
             /\ isFormOpen' = FALSE
             /\ editingId' = null
             /\ view' = <<>>
             /\ values' = EmptyValues(Entity(screen'))]_vars

\* C24 witness: the screen left had a changed store, an open form or an open
\* view; the screen shown is in its initial state.
C24_Witness ==
    /\ last.op = "Navigate"
    /\ last.res = "dirty"
    /\ rows = Seed(Entity(screen))
    /\ ~isFormOpen

\* C25: the Designation store starts as the two seed records; creating
\* {DRV, X} on it is rejected with an error on the code and leaves the two
\* records; creating {MGR, Manager} on it gives three records, the new one
\* with id 3.
C25_DesignationScenario ==
    [][(Entity(screen') = "Des") =>
          /\ (screen' # screen) => rows' = SeedDesignations
          /\ (SubmitStep /\ editingId = null /\ rows = SeedDesignations
                /\ values = [designationCode |-> DRV_, designationName |-> "X"]) =>
                /\ rows' = SeedDesignations
                /\ "designationCode" \in DOMAIN errors'
          /\ (SubmitStep /\ editingId = null /\ rows = SeedDesignations
                /\ values = [designationCode |-> MGR_, designationName |-> "Manager"]) =>
                /\ Len(rows') = 3
                /\ rows'[3] = [id |-> 3, designationCode |-> MGR_,
                               designationName |-> "Manager"]]_vars

\* C26: a Submit whose buffer breaks a required or format rule reports no
\* uniqueness error, and no submit leaves both kinds of error.
C26_UniquenessAfterSchema ==
    [][SubmitStep =>
          /\ ~PassesSchema => \A f \in DOMAIN errors' : errors'[f] \notin UniquenessMessages
          /\ ~(/\ \E f \in DOMAIN errors' : errors'[f] \in UniquenessMessages
               /\ \E f \in DOMAIN errors' : errors'[f] \notin UniquenessMessages)]_vars

\* C26 witness: on a screen with the duplicate check, a buffer with the key of
\* another record and a missing field was submitted.
C26_Witness ==
    /\ last.op = "Submit"
    /\ last.res = "invalid"
    /\ HasDuplicateCheck(screen)
    /\ KeyTaken
    /\ values[Key] # <<>>
    /\ errors # NoErrors

\* C27: on the Organization screen that checks tenant codes, a valid buffer
\* whose tenantCode is that of another record is rejected with the error on
\* tenantCode and the store unchanged; when organizationCode is a duplicate as
\* well only its error is reported; no two records share a tenantCode.
C27_TenantCodeUnique ==
    [][(screen = "Org2" /\ screen' = "Org2") =>
          /\ TenantUnique(rows)
          /\ TenantUnique(rows')
          /\ (SubmitStep /\ PassesSchema
                /\ IsDuplicate(rows, "tenantCode", values, editingId)) =>
                /\ rows' = rows
                /\ errors' = IF KeyTaken
                             THEN WithError(NoErrors, "organizationCode",
                                            DuplicateMessage("org"))
                             ELSE WithError(NoErrors, "tenantCode", TenantMessage)]_vars

\* C27 witness: a submit was rejected for its tenantCode alone.
C27_Witness ==
    /\ screen = "Org2"
    /\ last.op = "Submit"
    /\ last.res = "tenant"
    /\ "tenantCode" \in DOMAIN errors
    /\ rows = SeedOrganizations

\* C28: whenever an editing id is set, the form is open and exactly one record
\* of the store has that id.
C28_EditingIdStored ==
    (editingId # null) =>
        /\ isFormOpen
        /\ Cardinality({i \in DOMAIN rows : rows[i].id = editingId}) = 1

\* C28 witness: another record was deleted while one was being edited.
C28_Witness ==
    /\ editingId # null
    /\ last.op = "Delete"
    /\ last.res = "confirmed"
    /\ last.id # editingId

\* C29: whenever a view is open, a record of the store has the id shown and
\* every field shown equals that record's stored value.
C29_ViewShowsStored ==
    (view # <<>>) => \E i \in DOMAIN rows : rows[i].id = view[1].id /\ rows[i] = view[1]

\* C30: every record of every reachable store passes the required and format
\* rules of its entity's schema.
C30_StoredRecordsValid ==
    \A i \in DOMAIN rows : Resolve(Entity(screen), FormOf(Entity(screen), rows[i])) = NoErrors

====
